---------------------------- MODULE Spec2Model ----------------------------
(***************************************************************************)
(* Hive-Mind: the Agent Hub (agent registry, task registry, submitTask)    *)
(* and the Session / SessionManager registries, as state machines.         *)
(*                                                                         *)
(* JavaScript runs one synchronous stretch of code at a time; an async     *)
(* function is suspended only at an await.  The variable cur names the     *)
(* submitTask call whose synchronous stretch is running (0: none), and a   *)
(* call or a continuation starts only when cur = 0.  Continuations of      *)
(* settled promises wait in the FIFO microtask queue micro.                *)
(***************************************************************************)
EXTENDS Naturals, Sequences, FiniteSets, TLC

(***************************************************************************)
(* Bounds of the model.                                                    *)
(***************************************************************************)
\* Accepted submitTask calls (Task records created).
MaxTasks == 2
\* Largest value the clock Date.now() reaches.
MaxTime == 1
\* Session objects constructed.
MaxSessions == 2
\* addParticipant calls of the counting caller.
MaxAdds == 9
\* Convenience-dispatch calls that reach an agent.
MaxDispatch == 2

(***************************************************************************)
(* Optional fields (result?, error?, startTime?, endTime?).                *)
(***************************************************************************)
Absent == << >>
Some(v) == << v >>

(***************************************************************************)
(* Agents.  An agent object is named by its id (a crypto.randomUUID()      *)
(* drawn in the Agent constructor, unique per object).                     *)
(***************************************************************************)
BuiltIn == {"architect", "advocate", "historian", "scribe"}
CustomAgents == {"custom"}
AgentObjs == BuiltIn \cup CustomAgents

\* The order initializeDefaultAgents inserts the built-in agents in.
DefaultAgents == << "architect", "advocate", "historian", "scribe" >>

\* Agent.name of each agent object.
AgentName(a) ==
    CASE a = "architect" -> "The Architect"
      [] a = "advocate"  -> "The Devil's Advocate"
      [] a = "historian" -> "The Historian"
      [] a = "scribe"    -> "The Scribe"
      [] OTHER           -> "Custom Agent"

\* The label each built-in variant puts before the echoed input.
Tag(a) ==
    CASE a = "architect" -> "[Architect Analysis]\n"
      [] a = "advocate"  -> "[Chaos Analysis]\n"
      [] a = "historian" -> "[Historical Context]\n"
      [] OTHER           -> "[Documentation]\n"

\* Mutant of Response: the input echoed without its label.
Response_NoTag(a, input) == input

\* const response = `[...]\n${input}` of a built-in execute.
Response(a, input) == Tag(a) \o input

(***************************************************************************)
(* Inputs the environment supplies.                                        *)
(***************************************************************************)
\* (agentId, input) arguments of submitTask: a built-in agent with an empty
\* and a non-empty input, a custom agent, and an id that is never registered.
Submissions ==
    { << "architect", "" >>, << "architect", "hi" >>,
      << "custom", "hi" >>, << "unknown-agent", "hi" >> }
\* Agents handed to registerAgent, ids handed to unregisterAgent.
RegistryIds == {"custom"}
\* What a custom agent's execute may resolve with.
Outputs == {"", "out"}
\* What a custom agent's execute may raise: an Error (with its message) or
\* a value that is no Error.
Thrown == [isError : {TRUE}, val : {"", "boom"}] \cup [isError : {FALSE}, val : {"oops"}]

Pending == [kind |-> "pending", isError |-> FALSE, val |-> ""]
Resolved(v) == [kind |-> "ok", isError |-> FALSE, val |-> v]
Rejected(e) == [kind |-> "err", isError |-> e.isError, val |-> e.val]

VARIABLES
    agents,    \* AgentHub.agents: the registered agent ids, in insertion order
    history,   \* Agent.history of every agent object
    task,      \* the AgentTask objects ever created, by task id
    tasks,     \* AgentHub.tasks: the task ids in the registry, in insertion order
    calls,     \* the accepted submitTask calls: position, arguments, agent, awaited promise
    micro,     \* microtask queue: calls whose awaited promise has settled
    cur,       \* the call whose synchronous stretch is running, 0 if none
    now,       \* Date.now()
    raised,    \* the error the last operation raised to its caller, Absent if none
    sessionObjs, \* the Session objects ever constructed, by reference
    sessions,  \* SessionManager.sessions: (id, reference) entries, in insertion order
    engine,    \* the calls the last session operation made on a SyncEngine
    ledger,    \* the budget ledger (KeyVault): the amount remaining
    reply,     \* the value the last dispatch or budget operation returned, Absent if none
    addLog     \* the ids a counting caller has passed to addParticipant, in call order

hubVars == << agents, history, task, tasks, calls, micro, cur, now >>

sessVars == << sessionObjs, sessions, engine, ledger, reply, addLog >>

vars == << hubVars, sessVars, raised >>

\* budget: config.budget || 5.00 of createSession.
DefaultBudget == 5
\* The amount the budget ledger holds when the SessionManager is built.
OpeningBalance == 5

(***************************************************************************)
(* Map helpers: a Map is a sequence of keys without repetition.            *)
(***************************************************************************)
Range(s) == { s[i] : i \in DOMAIN s }
Has(m, k) == k \in Range(m)
\* Map.set on the keys: an existing key keeps its place.
MapSet(m, k) == IF Has(m, k) THEN m ELSE Append(m, k)
\* Map.delete.
MapDelete(m, k) == SelectSeq(m, LAMBDA x : x # k)

\* AgentHub.getTask.
GetTask(taskId) == IF Has(tasks, taskId) THEN Some(task[taskId]) ELSE Absent

\* AgentHub.getTasksByAgent.
GetTasksByAgent(agentId) ==
    LET ids == SelectSeq(tasks, LAMBDA t : task[t].agentId = agentId)
    IN  [i \in DOMAIN ids |-> task[ids[i]]]

(***************************************************************************)
(* Init: after new AgentHub(keyVault).                                     *)
(***************************************************************************)
HubInit ==
    /\ agents = DefaultAgents
    /\ history = [a \in AgentObjs |-> << >>]
    /\ task = << >>
    /\ tasks = << >>
    /\ calls = << >>
    /\ micro = << >>
    /\ cur = 0
    /\ now = 0
    /\ raised = Absent

\* After new SessionManager(keyVault), the ledger holding its opening amount.
SessionInit ==
    /\ sessionObjs = << >>
    /\ sessions = << >>
    /\ engine = << >>
    /\ ledger = OpeningBalance
    /\ reply = Absent
    /\ addLog = << >>

Init == HubInit /\ SessionInit

\* Date.now() advances (never backwards).
Tick ==
    /\ now < MaxTime
    /\ now' = now + 1
    /\ UNCHANGED << sessVars, agents, history, task, tasks, calls, micro, cur, raised >>

\* registerAgent(agent).
RegisterAgent(a) ==
    /\ cur = 0
    /\ agents' = MapSet(agents, a)
    /\ raised' = Absent
    /\ UNCHANGED << sessVars, history, task, tasks, calls, micro, cur, now >>

\* Mutant of UnregisterAgent: the tasks of the agent leave the task registry.
UnregisterAgent_Purge(a) ==
    /\ cur = 0
    /\ agents' = MapDelete(agents, a)
    /\ tasks' = SelectSeq(tasks, LAMBDA t : task[t].agentId # a)
    /\ raised' = Absent
    /\ UNCHANGED << sessVars, history, task, calls, micro, cur, now >>

\* unregisterAgent(agentId).
UnregisterAgent(a) ==
    /\ cur = 0
    /\ agents' = MapDelete(agents, a)
    /\ raised' = Absent
    /\ UNCHANGED << sessVars, history, task, tasks, calls, micro, cur, now >>

\* The task record submitTask builds.
NewTask(id, agentId, input) ==
    [id |-> id, agentId |-> agentId, input |-> input, status |-> "pending",
     result |-> Absent, error |-> Absent, startTime |-> Some(now), endTime |-> Absent]

\* The error an operation raises for an id that is not in its registry
\* (throw new Error(`Agent ${agentId} not found`), `Session ... not found`).
NotFound(op, id) == [op |-> op, arg |-> id, error |-> "NotFound"]

\* this.agents.get(agentId) found an agent.
Found(agentId) == Has(agents, agentId)

\* Mutant of SubmitTask: the task record is built without the lookup's check.
SubmitTask_NoCheck(agentId, input) ==
    /\ cur = 0
    /\ Len(calls) < MaxTasks
    /\ LET id == Len(calls) + 1
       IN  /\ task' = Append(task, NewTask(id, agentId, input))
           /\ tasks' = MapSet(tasks, id)
           /\ calls' = Append(calls, [pc |-> "created", agentId |-> agentId,
                                      input |-> input, agent |-> agentId,
                                      promise |-> Pending])
           /\ cur' = id
    /\ raised' = Absent
    /\ UNCHANGED << sessVars, agents, history, micro, now >>

\* submitTask(agentId, input), up to this.tasks.set(task.id, task).
SubmitTask(agentId, input) ==
    /\ cur = 0
    /\ IF ~Found(agentId)
       THEN /\ raised' = Some(NotFound("submitTask", agentId))
            /\ UNCHANGED << sessVars, agents, history, task, tasks, calls, micro, cur, now >>
       ELSE /\ Len(calls) < MaxTasks
            /\ LET id == Len(calls) + 1
               IN  /\ task' = Append(task, NewTask(id, agentId, input))
                   /\ tasks' = MapSet(tasks, id)
                   /\ calls' = Append(calls, [pc |-> "created", agentId |-> agentId,
                                              input |-> input, agent |-> agentId,
                                              promise |-> Pending])
                   /\ cur' = id
            /\ raised' = Absent
            /\ UNCHANGED << sessVars, agents, history, micro, now >>

\* Mutant of Exchange: the response is recorded before the input.
Exchange_Swapped(a, input) ==
    << [role |-> "assistant", content |-> Response(a, input)],
       [role |-> "user", content |-> input] >>

\* The two messages a built-in execute appends to its agent's history.
Exchange(a, input) ==
    << [role |-> "user", content |-> input],
       [role |-> "assistant", content |-> Response(a, input)] >>

\* The convenience dispatch methods and the inputs given to them.
DispatchMethods == {"askArchitect", "challengeCode", "getHistory", "documentCode"}
DispatchInputs == {"", "hi"}

\* The fixed name each convenience method looks up.
DispatchName(method) ==
    CASE method = "askArchitect"  -> "The Architect"
      [] method = "challengeCode" -> "The Devil's Advocate"
      [] method = "getHistory"    -> "The Historian"
      [] OTHER                    -> "The Scribe"

\* Mutant of GetAgentByName: the first agent, whatever its name.
GetAgentByName_First(name) ==
    IF agents = << >> THEN Absent ELSE Some(agents[1])

\* getAgentByName: Array.from(this.agents.values()).find(a => a.name === name),
\* the first match in insertion order.
GetAgentByName(name) ==
    LET hits == SelectSeq(agents, LAMBDA a : AgentName(a) = name)
    IN  IF hits = << >> THEN Absent ELSE Some(hits[1])

\* Calls of execute made by convenience methods so far: the exchanges in the
\* built-in histories that no submitTask call made.
Dispatched ==
    LET pairs == (Len(history["architect"]) + Len(history["advocate"])
                  + Len(history["historian"]) + Len(history["scribe"])) \div 2
        viaTask == Cardinality({ t \in DOMAIN calls :
                                   /\ calls[t].agent \in BuiltIn
                                   /\ calls[t].pc \notin {"created", "calling"} })
    IN  pairs - viaTask

\* askArchitect / challengeCode / getHistory / documentCode (input): the
\* lookup by name, the throw when it finds nothing, else execute of the
\* built-in agent found, which appends its exchange and returns the response.
Dispatch(method, input) ==
    /\ cur = 0
    /\ LET found == GetAgentByName(DispatchName(method))
       IN  IF found = Absent
           THEN /\ raised' = Some(NotFound(method, DispatchName(method)))
                /\ reply' = Absent
                /\ UNCHANGED history
           ELSE /\ found[1] \in BuiltIn
                /\ Dispatched < MaxDispatch
                /\ history' = [history EXCEPT ![found[1]] = @ \o Exchange(found[1], input)]
                /\ reply' = Some(Response(found[1], input))
                /\ raised' = Absent
    /\ UNCHANGED << agents, task, tasks, calls, micro, cur, now,
                    sessionObjs, sessions, engine, ledger, addLog >>

\* task.status = 'running', the first statement of the try block.
SetRunning ==
    /\ cur # 0
    /\ calls[cur].pc = "created"
    /\ task' = [task EXCEPT ![cur].status = "running"]
    /\ calls' = [calls EXCEPT ![cur].pc = "calling"]
    /\ UNCHANGED << sessVars, agents, history, tasks, micro, cur, now, raised >>

\* agent.execute(input) of a built-in agent: an async function without an
\* await, so it runs to its end at once and returns a resolved promise; the
\* await of submitTask then suspends the call until the microtask runs.
CallBuiltIn ==
    /\ cur # 0
    /\ calls[cur].pc = "calling"
    /\ calls[cur].agent \in BuiltIn
    /\ LET a == calls[cur].agent
           input == calls[cur].input
       IN  /\ history' = [history EXCEPT ![a] = @ \o Exchange(a, input)]
           /\ calls' = [calls EXCEPT ![cur].pc = "queued",
                                     ![cur].promise = Resolved(Response(a, input))]
    /\ micro' = Append(micro, cur)
    /\ cur' = 0
    /\ UNCHANGED << sessVars, agents, task, tasks, now, raised >>

\* agent.execute(input) of a custom agent (any implementation of the abstract
\* execute): it returns a promise that is still pending, and submitTask
\* suspends at the await.
CallCustom ==
    /\ cur # 0
    /\ calls[cur].pc = "calling"
    /\ calls[cur].agent \notin BuiltIn
    /\ calls' = [calls EXCEPT ![cur].pc = "executing"]
    /\ cur' = 0
    /\ UNCHANGED << sessVars, agents, history, task, tasks, micro, now, raised >>

\* agent.execute(input) of a custom agent raises before returning a promise:
\* control passes to the catch block in the same synchronous stretch.
CallCustomThrows(e) ==
    /\ cur # 0
    /\ calls[cur].pc = "calling"
    /\ calls[cur].agent \notin BuiltIn
    /\ calls' = [calls EXCEPT ![cur].pc = "resumed", ![cur].promise = Rejected(e)]
    /\ UNCHANGED << sessVars, agents, history, task, tasks, micro, cur, now, raised >>

\* The promise of a custom agent's execute settles: it resolves with an
\* output or rejects, and the continuation of the await is queued.
Settle(t, outcome) ==
    /\ cur = 0
    /\ t \in DOMAIN calls
    /\ calls[t].pc = "executing"
    /\ calls' = [calls EXCEPT ![t].pc = "queued", ![t].promise = outcome]
    /\ micro' = Append(micro, t)
    /\ UNCHANGED << sessVars, agents, history, task, tasks, cur, now, raised >>

\* Mutant of Resume: the continuation runs only while the task's agent is
\* still registered.
Resume_IfRegistered ==
    /\ cur = 0
    /\ micro # << >>
    /\ Has(agents, calls[Head(micro)].agentId)
    /\ cur' = Head(micro)
    /\ micro' = Tail(micro)
    /\ calls' = [calls EXCEPT ![Head(micro)].pc = "resumed"]
    /\ UNCHANGED << sessVars, agents, history, task, tasks, now, raised >>

\* The microtask of the oldest settled await runs: submitTask resumes.
Resume ==
    /\ cur = 0
    /\ micro # << >>
    /\ cur' = Head(micro)
    /\ micro' = Tail(micro)
    /\ calls' = [calls EXCEPT ![Head(micro)].pc = "resumed"]
    /\ UNCHANGED << sessVars, agents, history, task, tasks, now, raised >>

\* task.result = (the awaited value).
StoreResult ==
    /\ cur # 0
    /\ calls[cur].pc = "resumed"
    /\ calls[cur].promise.kind = "ok"
    /\ task' = [task EXCEPT ![cur].result = Some(calls[cur].promise.val)]
    /\ calls' = [calls EXCEPT ![cur].pc = "stored"]
    /\ UNCHANGED << sessVars, agents, history, tasks, micro, cur, now, raised >>

\* task.status = 'completed'.
SetCompleted ==
    /\ cur # 0
    /\ calls[cur].pc = "stored"
    /\ task' = [task EXCEPT ![cur].status = "completed"]
    /\ calls' = [calls EXCEPT ![cur].pc = "finally"]
    /\ UNCHANGED << sessVars, agents, history, tasks, micro, cur, now, raised >>

\* Mutant of CaughtStatus: a failed task is put back to pending (a retry).
CaughtStatus_Retry == "pending"

\* The status the catch block writes.
CaughtStatus == "failed"

\* catch (error) { task.status = 'failed'.
SetFailed ==
    /\ cur # 0
    /\ calls[cur].pc = "resumed"
    /\ calls[cur].promise.kind = "err"
    /\ task' = [task EXCEPT ![cur].status = CaughtStatus]
    /\ calls' = [calls EXCEPT ![cur].pc = "caught"]
    /\ UNCHANGED << sessVars, agents, history, tasks, micro, cur, now, raised >>

\* error instanceof Error ? error.message : 'Unknown error'.
ErrorMessage(e) == IF e.isError THEN e.val ELSE "Unknown error"

\* Mutant of AfterCatch: the catch block returns, skipping the finally block.
AfterCatch_NoFinally == "returning"

\* Where control goes after the catch block: the finally block.
AfterCatch == "finally"

\* task.error = ... } of the catch block.
SetError ==
    /\ cur # 0
    /\ calls[cur].pc = "caught"
    /\ task' = [task EXCEPT ![cur].error = Some(ErrorMessage(calls[cur].promise))]
    /\ calls' = [calls EXCEPT ![cur].pc = AfterCatch]
    /\ UNCHANGED << sessVars, agents, history, tasks, micro, cur, now, raised >>

\* finally { task.endTime = Date.now() }.
SetEndTime ==
    /\ cur # 0
    /\ calls[cur].pc = "finally"
    /\ task' = [task EXCEPT ![cur].endTime = Some(now)]
    /\ calls' = [calls EXCEPT ![cur].pc = "returning"]
    /\ UNCHANGED << sessVars, agents, history, tasks, micro, cur, now, raised >>

\* return task: the promise submitTask returned resolves with the task.
Return ==
    /\ cur # 0
    /\ calls[cur].pc = "returning"
    /\ calls' = [calls EXCEPT ![cur].pc = "returned"]
    /\ cur' = 0
    /\ UNCHANGED << sessVars, agents, history, task, tasks, micro, now, raised >>

(***************************************************************************)
(* Sessions.  A Session object is named by its reference (its position in  *)
(* sessionObjs); its id is the label generateSessionId draws.  The fields  *)
(* name, budget, joinedAt and lastSeen are never read by the operations    *)
(* below and are left out.                                                 *)
(***************************************************************************)
\* Labels generateSessionId may return (two of its 5 * 5 * 1000).
SessionIds == {"cool-code-7", "epic-hack-42"}
\* Session ids handed to joinSession, leaveSession and endSession.
LookupIds == SessionIds \cup {"unknown-id"}
HostIds == {"host"}
ParticipantIds == {"host", "p1"}
\* Participant stubs handed to joinSession: a newcomer without a color, and
\* one that carries the host's id and gives a color.
JoinStubs ==
    { [id |-> "p1", username |-> "user", color |-> ""],
      [id |-> "host", username |-> "user", color |-> "#000000"] }
\* Participants handed to Session.addParticipant by a holder of the session.
DirectParticipants ==
    {[id |-> "p1", username |-> "user", color |-> "", isHost |-> FALSE]}

\* const colors of generateColor.
Palette ==
    << "#FF6B6B", "#4ECDC4", "#45B7D1", "#96CEB4",
       "#FFEAA7", "#DDA0DD", "#98D8C8", "#F7DC6F" >>

\* Mutant of GenerateColor: the index is clamped instead of wrapped.
GenerateColor_NoWrap(ps) ==
    Palette[(IF Len(ps) < Len(Palette) THEN Len(ps) ELSE Len(Palette) - 1) + 1]

\* Session.generateColor: colors[this.participants.size % colors.length].
GenerateColor(ps) == Palette[(Len(ps) % Len(Palette)) + 1]

\* Session.addParticipant on the participants Map (Participant records in
\* insertion order, one per id): Map.set keeps the place of an existing id.
AddParticipant(ps, p) ==
    LET q == [p EXCEPT !.color = IF p.color # "" THEN p.color ELSE GenerateColor(ps)]
    IN  IF \E i \in DOMAIN ps : ps[i].id = p.id
        THEN [i \in DOMAIN ps |-> IF ps[i].id = p.id THEN q ELSE ps[i]]
        ELSE Append(ps, q)

\* this.participants.delete(participantId) of Session.removeParticipant.
RemoveParticipant(ps, id) == SelectSeq(ps, LAMBDA x : x.id # id)

\* Session.getParticipant.
GetParticipant(ps, id) ==
    IF \E i \in DOMAIN ps : ps[i].id = id
    THEN Some(ps[CHOOSE i \in DOMAIN ps : ps[i].id = id])
    ELSE Absent

\* config.budget || 5.00: an absent or zero budget becomes the default.
BudgetOrDefault(b) == IF b = Absent \/ b = Some(0) THEN DefaultBudget ELSE b[1]

\* new Session(config, keyVault): isActive = true, the host added first.
\* createSession is given no budget here.
NewSession(id, hostId) ==
    [id |-> id, hostId |-> hostId, isActive |-> TRUE,
     budget |-> BudgetOrDefault(Absent),
     participants |->
        AddParticipant(<< >>, [id |-> hostId, username |-> "Host",
                               color |-> GenerateColor(<< >>), isHost |-> TRUE])]

\* Mutant of End: isActive is flipped instead of cleared.
End_Toggle(s) == [s EXCEPT !.isActive = ~@, !.participants = << >>]

\* Session.end.
End(s) == [s EXCEPT !.isActive = FALSE, !.participants = << >>]

\* this.syncEngine.removeCursor(participantId), on the engine of session ref.
RemoveCursorCall(ref, pid) == [ref |-> ref, op |-> "removeCursor", arg |-> pid]

\* Mutant of RemoveParticipantCalls: the sync engine is not told.
RemoveParticipantCalls_None(ref, pid) == << >>

\* The SyncEngine calls Session.removeParticipant(participantId) makes.
RemoveParticipantCalls(ref, pid) == << RemoveCursorCall(ref, pid) >>

\* Mutant of SessionsGet: an id with no entry falls back to the first entry.
SessionsGet_Fallback(id) ==
    IF \E i \in DOMAIN sessions : sessions[i].id = id
    THEN sessions[CHOOSE i \in DOMAIN sessions : sessions[i].id = id].ref
    ELSE IF sessions = << >> THEN 0 ELSE sessions[1].ref

\* this.sessions.get(sessionId): the reference, 0 if there is none.
SessionsGet(id) ==
    IF \E i \in DOMAIN sessions : sessions[i].id = id
    THEN sessions[CHOOSE i \in DOMAIN sessions : sessions[i].id = id].ref
    ELSE 0

\* this.sessions.set(id, ref).
SessionsSet(id, ref) ==
    IF \E i \in DOMAIN sessions : sessions[i].id = id
    THEN [i \in DOMAIN sessions |->
            IF sessions[i].id = id THEN [id |-> id, ref |-> ref] ELSE sessions[i]]
    ELSE Append(sessions, [id |-> id, ref |-> ref])

\* SessionManager.getSession.
GetSession(id) == IF SessionsGet(id) = 0 THEN Absent ELSE Some(sessionObjs[SessionsGet(id)])

\* SessionManager.listSessions.
ListSessions == [i \in DOMAIN sessions |-> sessionObjs[sessions[i].ref]]

\* SessionManager.createSession(config); id is what generateSessionId drew.
CreateSession(hostId, id) ==
    /\ Len(sessionObjs) < MaxSessions
    /\ sessionObjs' = Append(sessionObjs, NewSession(id, hostId))
    /\ sessions' = SessionsSet(id, Len(sessionObjs) + 1)
    /\ raised' = Absent
    /\ engine' = << >>
    /\ UNCHANGED << hubVars, ledger, reply, addLog >>

\* SessionManager.joinSession(sessionId, participant).
JoinSession(id, stub) ==
    /\ IF SessionsGet(id) = 0
       THEN /\ raised' = Some(NotFound("joinSession", id))
            /\ UNCHANGED sessionObjs
       ELSE /\ sessionObjs' =
                 [sessionObjs EXCEPT ![SessionsGet(id)].participants =
                     AddParticipant(@, [id |-> stub.id, username |-> stub.username,
                                        color |-> stub.color, isHost |-> FALSE])]
            /\ raised' = Absent
    /\ engine' = << >>
    /\ UNCHANGED << hubVars, sessions, ledger, reply, addLog >>

\* SessionManager.leaveSession(sessionId, participantId).
LeaveSession(id, pid) ==
    /\ IF SessionsGet(id) = 0
       THEN /\ UNCHANGED sessionObjs
            /\ engine' = << >>
       ELSE /\ sessionObjs' =
                 [sessionObjs EXCEPT ![SessionsGet(id)].participants =
                     RemoveParticipant(@, pid)]
            /\ engine' = RemoveParticipantCalls(SessionsGet(id), pid)
    /\ raised' = Absent
    /\ UNCHANGED << hubVars, sessions, ledger, reply, addLog >>

\* SessionManager.endSession(sessionId).
EndSession(id) ==
    /\ IF SessionsGet(id) = 0
       THEN UNCHANGED << sessionObjs, sessions >>
       ELSE /\ sessionObjs' = [sessionObjs EXCEPT ![SessionsGet(id)] = End(@)]
            /\ sessions' = SelectSeq(sessions, LAMBDA e : e.id # id)
    /\ raised' = Absent
    /\ engine' = << >>
    /\ UNCHANGED << hubVars, ledger, reply, addLog >>

\* session.addParticipant(p), called on a Session that createSession,
\* getSession or listSessions returned.
SessionAddParticipant(ref, p) ==
    /\ ref \in DOMAIN sessionObjs
    /\ sessionObjs' = [sessionObjs EXCEPT ![ref].participants = AddParticipant(@, p)]
    /\ raised' = Absent
    /\ engine' = << >>
    /\ UNCHANGED << hubVars, sessions, ledger, reply, addLog >>

\* session.removeParticipant(participantId), called on such a Session.
SessionRemoveParticipant(ref, pid) ==
    /\ ref \in DOMAIN sessionObjs
    /\ sessionObjs' = [sessionObjs EXCEPT ![ref].participants = RemoveParticipant(@, pid)]
    /\ engine' = RemoveParticipantCalls(ref, pid)
    /\ raised' = Absent
    /\ UNCHANGED << hubVars, sessions, ledger, reply, addLog >>

\* session.end(), called on such a Session.
SessionEnd(ref) ==
    /\ ref \in DOMAIN sessionObjs
    /\ sessionObjs' = [sessionObjs EXCEPT ![ref] = End(@)]
    /\ raised' = Absent
    /\ engine' = << >>
    /\ UNCHANGED << hubVars, sessions, ledger, reply, addLog >>

SessionNext ==
    \/ \E h \in HostIds, id \in SessionIds : CreateSession(h, id)
    \/ \E id \in LookupIds, stub \in JoinStubs : JoinSession(id, stub)
    \/ \E id \in LookupIds, pid \in ParticipantIds : LeaveSession(id, pid)
    \/ \E id \in LookupIds : EndSession(id)
    \/ \E ref \in 1..MaxSessions, p \in DirectParticipants : SessionAddParticipant(ref, p)
    \/ \E ref \in 1..MaxSessions, pid \in ParticipantIds : SessionRemoveParticipant(ref, pid)
    \/ \E ref \in 1..MaxSessions : SessionEnd(ref)

SessionSpec == Init /\ [][SessionNext]_vars

(***************************************************************************)
(* The budget ledger (KeyVault), shared by every session of the manager    *)
(* and by any other consumer of the account.  Its code is not part of the  *)
(* sources; it is modelled from its contract: "get remaining budget" and   *)
(* "attempt to spend amount, returns accepted/rejected", no partial spend. *)
(***************************************************************************)
\* keyVault.getBudgetRemaining().
LedgerRemaining == ledger
\* keyVault.recordSpend(cost) answers accepted.
LedgerAccepts(cost) == cost <= ledger
\* The ledger after keyVault.recordSpend(cost).
LedgerAfter(cost) == IF LedgerAccepts(cost) THEN ledger - cost ELSE ledger

\* Costs handed to recordAiUsage and recordSpend; the last exceeds any balance.
Costs == {1, 2, 7}

\* What a budget operation returns: an amount, or the accepted/rejected answer.
Amount(n) == [amount |-> n]
Answer(b) == [accepted |-> b]

\* Mutant of GetBudgetRemaining: the session's own budget field.
GetBudgetRemaining_Own(s) == s.budget

\* Session.getBudgetRemaining: return this.keyVault.getBudgetRemaining().
GetBudgetRemaining(s) == LedgerRemaining

\* session.getBudgetRemaining(), called on the session ref.
ReadBudget(ref) ==
    /\ ref \in DOMAIN sessionObjs
    /\ reply' = Some(Amount(GetBudgetRemaining(sessionObjs[ref])))
    /\ raised' = Absent
    /\ engine' = << >>
    /\ UNCHANGED << hubVars, sessionObjs, sessions, ledger, addLog >>

\* session.recordAiUsage(cost): return this.keyVault.recordSpend(cost).
RecordAiUsage(ref, cost) ==
    /\ ref \in DOMAIN sessionObjs
    /\ reply' = Some(Answer(LedgerAccepts(cost)))
    /\ ledger' = LedgerAfter(cost)
    /\ raised' = Absent
    /\ engine' = << >>
    /\ UNCHANGED << hubVars, sessionObjs, sessions, addLog >>

\* keyVault.recordSpend(cost) by another consumer of the same account.
OtherSpend(cost) ==
    /\ ledger' = LedgerAfter(cost)
    /\ reply' = Absent
    /\ raised' = Absent
    /\ engine' = << >>
    /\ UNCHANGED << hubVars, sessionObjs, sessions, addLog >>

BudgetNext ==
    \/ \E h \in HostIds, id \in SessionIds : CreateSession(h, id)
    \/ \E ref \in 1..MaxSessions : ReadBudget(ref)
    \/ \E ref \in 1..MaxSessions, cost \in Costs : RecordAiUsage(ref, cost)
    \/ \E cost \in Costs : OtherSpend(cost)
    \/ \E ref \in 1..MaxSessions : SessionEnd(ref)

BudgetSpec == Init /\ [][BudgetNext]_vars

\* The operations of the SessionManager alone.
ManagerNext ==
    \/ \E h \in HostIds, id \in SessionIds : CreateSession(h, id)
    \/ \E id \in LookupIds, stub \in JoinStubs : JoinSession(id, stub)
    \/ \E id \in LookupIds, pid \in ParticipantIds : LeaveSession(id, pid)
    \/ \E id \in LookupIds : EndSession(id)

ManagerSpec == Init /\ [][ManagerNext]_vars

\* The operations of Session objects alone, on sessions createSession made.
RosterNext ==
    \/ \E h \in HostIds, id \in SessionIds : CreateSession(h, id)
    \/ \E ref \in 1..MaxSessions, p \in DirectParticipants : SessionAddParticipant(ref, p)
    \/ \E ref \in 1..MaxSessions, pid \in ParticipantIds : SessionRemoveParticipant(ref, pid)
    \/ \E ref \in 1..MaxSessions : SessionEnd(ref)

RosterSpec == Init /\ [][RosterNext]_vars

(***************************************************************************)
(* One session and a caller that only adds participants, none with a      *)
(* color, and keeps the list of the ids it has passed.                     *)
(***************************************************************************)
\* Ids of newcomers, in the order the caller uses them.
PalettePool ==
    << "u1", "u2", "u3", "u4", "u5", "u6", "u7", "u8", "u9", "u10", "u11", "u12" >>

\* The next id the caller has not used yet.
FreshId == PalettePool[Cardinality(Range(addLog) \ {"host"}) + 1]

\* The ids the caller may pass: one already used (the host's included) or new.
AddChoices == Range(addLog) \cup {"host", FreshId}

\* createSession, once.
CreateOnly ==
    /\ sessionObjs = << >>
    /\ CreateSession("host", "cool-code-7")

\* session.addParticipant(p) with p.color empty, and the caller notes p.id.
CountedAdd(id) ==
    /\ sessionObjs # << >>
    /\ Len(addLog) < MaxAdds
    /\ sessionObjs' =
           [sessionObjs EXCEPT ![1].participants =
               AddParticipant(@, [id |-> id, username |-> "user",
                                  color |-> "", isHost |-> FALSE])]
    /\ addLog' = Append(addLog, id)
    /\ raised' = Absent
    /\ engine' = << >>
    /\ UNCHANGED << hubVars, sessions, ledger, reply >>

PaletteNext ==
    \/ CreateOnly
    \/ \E id \in AddChoices : CountedAdd(id)

PaletteSpec == Init /\ [][PaletteNext]_vars

Next ==
    \/ Tick
    \/ \E a \in RegistryIds : RegisterAgent(a)
    \/ \E a \in RegistryIds : UnregisterAgent(a)
    \/ \E s \in Submissions : SubmitTask(s[1], s[2])
    \/ SetRunning
    \/ CallBuiltIn
    \/ CallCustom
    \/ \E e \in Thrown : CallCustomThrows(e)
    \/ \E t \in 1..MaxTasks, v \in Outputs : Settle(t, Resolved(v))
    \/ \E t \in 1..MaxTasks, e \in Thrown : Settle(t, Rejected(e))
    \/ Resume
    \/ StoreResult
    \/ SetCompleted
    \/ SetFailed
    \/ SetError
    \/ SetEndTime
    \/ Return

Spec == Init /\ [][Next]_vars

(***************************************************************************)
(* The hub used through its convenience methods, while built-in agents are *)
(* unregistered and the Architect is registered again.                     *)
(***************************************************************************)
\* Agents handed back to registerAgent after they were unregistered.
Returning == {"architect"}

DispatchNext ==
    \/ \E a \in BuiltIn : UnregisterAgent(a)
    \/ \E a \in Returning : RegisterAgent(a)
    \/ \E m \in DispatchMethods, x \in DispatchInputs : Dispatch(m, x)

DispatchSpec == Init /\ [][DispatchNext]_vars

(***************************************************************************)
(* submitTask calls and convenience calls against built-in agents, in any  *)
(* interleaving the event loop allows.                                     *)
(***************************************************************************)
\* submitTask arguments that name a built-in agent.
BuiltInSubmissions ==
    { << "architect", "hi" >>, << "architect", "" >>, << "scribe", "hi" >> }

InterleaveNext ==
    \/ \E s \in BuiltInSubmissions : SubmitTask(s[1], s[2])
    \/ SetRunning
    \/ CallBuiltIn
    \/ Resume
    \/ StoreResult
    \/ SetCompleted
    \/ SetEndTime
    \/ Return
    \/ \E m \in DispatchMethods, x \in DispatchInputs : Dispatch(m, x)

InterleaveSpec == Init /\ [][InterleaveNext]_vars

(***************************************************************************)
(* The hub under the scheduling JavaScript guarantees, for the liveness of *)
(* tasks.  No step of submitTask reads the clock to decide anything, so    *)
(* FairSpec lets the clock stand.                                          *)
(***************************************************************************)
\* What the promise of a custom agent's execute may settle to.
Outcomes == {Resolved(v) : v \in Outputs} \cup {Rejected(e) : e \in Thrown}

\* A synchronous stretch of submitTask goes on to its end (the next await or
\* the return).
SyncStep ==
    \/ SetRunning
    \/ CallBuiltIn
    \/ CallCustom
    \/ \E e \in Thrown : CallCustomThrows(e)
    \/ StoreResult
    \/ SetCompleted
    \/ SetFailed
    \/ SetError
    \/ SetEndTime
    \/ Return

\* The promise of call t settles, one way or the other.
SettleSome(t) == \E o \in Outcomes : Settle(t, o)

LiveNext ==
    \/ \E a \in RegistryIds : RegisterAgent(a)
    \/ \E a \in RegistryIds : UnregisterAgent(a)
    \/ \E s \in Submissions : SubmitTask(s[1], s[2])
    \/ SyncStep
    \/ \E t \in 1..MaxTasks : SettleSome(t)
    \/ Resume

\* Running code runs on, the event loop runs a queued microtask, and every
\* agent invocation eventually returns or raises.
Fairness ==
    /\ WF_vars(SyncStep)
    /\ WF_vars(Resume)
    /\ \A t \in 1..MaxTasks : WF_vars(SettleSome(t))

FairSpec == Init /\ [][LiveNext]_vars /\ Fairness

(***************************************************************************)
(* Agent Hub: the properties checked.                                      *)
(***************************************************************************)
\* The call is inside its agent's execute: invoked, its promise not settled.
Executing(t) == task[t].status = "running" /\ calls[t].pc = "executing"
\* The call has invoked agent.execute.
Invoked(t) == calls[t].pc \notin {"created", "calling"}
\* The task has reached its final status.
Terminal(t) == task[t].status \in {"completed", "failed"}
\* submitTask has returned the task to its caller.
Returned(t) == calls[t].pc = "returned"

\* C1: at most one task per agent id is executing (status running, inside
\* that agent's execute) in every reachable state.
C1_OneExecutingPerAgent ==
    \A t, u \in DOMAIN calls :
        (Executing(t) /\ Executing(u) /\ task[t].agentId = task[u].agentId) => t = u

\* C2: tasks of one agent run in submission order: when the execute of a
\* later submission is invoked, every earlier submission to the same agent
\* has reached completed or failed.
C2_SubmissionOrder ==
    [][\A b \in DOMAIN calls :
          (~Invoked(b) /\ calls'[b].pc \notin {"created", "calling"}) =>
              \A a \in DOMAIN calls :
                  (a < b /\ task[a].agentId = task[b].agentId) => Terminal(a)]_vars

\* C3: a task's status changes only pending -> running, running -> completed
\* or running -> failed; a task is created pending and never disappears, so
\* a completed or failed task keeps its status for ever.
C3_StatusTransitions ==
    [][/\ \A t \in DOMAIN task :
            /\ t \in DOMAIN task'
            /\ task'[t].status # task[t].status =>
                   << task[t].status, task'[t].status >> \in
                       { << "pending", "running" >>, << "running", "completed" >>,
                         << "running", "failed" >> }
       /\ \A t \in DOMAIN task' \ DOMAIN task : task'[t].status = "pending"]_vars

\* A task has completed and another has failed.
C3_Witness ==
    \E t, u \in DOMAIN task :
        /\ task[t].status = "completed" /\ Returned(t)
        /\ task[u].status = "failed" /\ Returned(u)

\* C4: submitTask with an agentId that is not registered raises NotFound and
\* leaves the task registry, the task objects, the agent registry and every
\* history as they were; no Task record is ever created for an agentId that
\* is not registered at the time of the call.
C4_UnknownAgentNoEffect ==
    [][/\ \A s \in Submissions :
            (SubmitTask(s[1], s[2]) /\ ~Has(agents, s[1])) =>
                /\ raised' = Some(NotFound("submitTask", s[1]))
                /\ UNCHANGED << task, tasks, agents, history, calls >>
       /\ \A t \in DOMAIN task' \ DOMAIN task : Has(agents, task'[t].agentId)]_vars

\* submitTask has just raised NotFound for an agent that was registered and
\* given a task before, and for one that never was registered.
C4_Witness ==
    /\ raised \in {Some(NotFound("submitTask", "custom")),
                   Some(NotFound("submitTask", "unknown-agent"))}
    /\ \E t \in DOMAIN task : task[t].agentId = "custom"

\* C5: every task submitTask accepted eventually reaches completed or
\* failed, whatever is submitted, registered or unregistered meanwhile.
C5_TasksTerminate ==
    \A t \in 1..MaxTasks : (t \in DOMAIN task) ~> (t \in DOMAIN task /\ Terminal(t))

\* submitTask has returned a finished task of an agent that is no longer
\* registered.
C5_Witness ==
    \E t \in DOMAIN task :
        Returned(t) /\ Terminal(t) /\ task[t].agentId = "custom" /\ ~Has(agents, "custom")

\* C6: endTime is written once, when the final status and the result or
\* the error are already set, nothing of the task changes after it, and a
\* task that submitTask has returned has an endTime.
C6_EndTimeOnceAndLast ==
    /\ [](\A t \in DOMAIN calls : Returned(t) => task[t].endTime # Absent)
    /\ [][\A t \in DOMAIN task :
             /\ task'[t].endTime # task[t].endTime =>
                    /\ task[t].endTime = Absent
                    /\ Terminal(t)
                    /\ task[t].status = "completed" => task[t].result # Absent
                    /\ task[t].status = "failed" => task[t].error # Absent
             /\ task[t].endTime # Absent => task'[t] = task[t]]_vars

\* submitTask has returned a failed task and a completed one: both have
\* their endTime.
C6_Witness ==
    \E t, u \in DOMAIN task :
        /\ Returned(t) /\ task[t].status = "failed" /\ task[t].endTime # Absent
        /\ Returned(u) /\ task[u].status = "completed" /\ task[u].endTime # Absent

\* C7: when the agent invocation fails, submitTask returns a task with
\* status failed, a non-empty error message, no result, and an endTime.
C7_FailedTaskRecord ==
    \A t \in DOMAIN calls :
        (Returned(t) /\ calls[t].promise.kind = "err") =>
            /\ task[t].status = "failed"
            /\ task[t].error # Absent
            /\ task[t].error # Some("")
            /\ task[t].result = Absent
            /\ task[t].endTime # Absent

\* C8 as stated: when the agent invocation returns, the returned task is
\* completed with a non-empty result, no error, the agentId and input of the
\* call, and startTime <= endTime.
C8_CompletedTaskNonEmpty ==
    \A t \in DOMAIN calls :
        (Returned(t) /\ calls[t].promise.kind = "ok") =>
            /\ task[t].status = "completed"
            /\ task[t].result # Absent
            /\ task[t].result # Some("")
            /\ task[t].error = Absent
            /\ task[t].agentId = calls[t].agentId
            /\ task[t].input = calls[t].input
            /\ task[t].startTime # Absent /\ task[t].endTime # Absent
            /\ task[t].startTime[1] <= task[t].endTime[1]

\* C8 amended: the result is the string the agent returned, which is the
\* labeled echo of the input, hence non-empty, for every built-in agent; a
\* custom agent's result is whatever it returned, the empty string included.
C8_CompletedTaskRecord ==
    \A t \in DOMAIN calls :
        (Returned(t) /\ calls[t].promise.kind = "ok") =>
            /\ task[t].status = "completed"
            /\ task[t].result = Some(calls[t].promise.val)
            /\ calls[t].agent \in BuiltIn =>
                   /\ task[t].result = Some(Tag(calls[t].agent) \o calls[t].input)
                   /\ task[t].result # Some("")
            /\ task[t].error = Absent
            /\ task[t].agentId = calls[t].agentId
            /\ task[t].input = calls[t].input
            /\ task[t].startTime # Absent /\ task[t].endTime # Absent
            /\ task[t].startTime[1] <= task[t].endTime[1]

\* A built-in agent has completed a task with the empty input, and a task
\* has completed with its endTime after its startTime.
C8_Witness ==
    /\ \E t \in DOMAIN task :
          Returned(t) /\ task[t].status = "completed"
              /\ task[t].agentId \in BuiltIn /\ task[t].input = ""
    /\ \E t \in DOMAIN task :
          Returned(t) /\ task[t].status = "completed"
              /\ task[t].startTime[1] < task[t].endTime[1]

\* C9: a task is in the task registry (getTask, getTasksByAgent) from its
\* creation with status pending, before its agent is invoked, and no
\* operation removes or replaces an entry of the task registry.
C9_TaskRegistryGrows ==
    /\ [](\A t \in DOMAIN calls :
             /\ GetTask(t) = Some(task[t])
             /\ \E i \in DOMAIN GetTasksByAgent(task[t].agentId) :
                    GetTasksByAgent(task[t].agentId)[i] = task[t]
             /\ calls[t].pc = "created" => task[t].status = "pending")
    /\ [][/\ Len(tasks') >= Len(tasks)
          /\ \A i \in DOMAIN tasks : tasks'[i] = tasks[i]]_vars

\* A task is in the registry, pending, before its agent is invoked, while a
\* failed task of an agent that was unregistered since is still there.
C9_Witness ==
    \E t, u \in DOMAIN task :
        /\ calls[t].pc = "created" /\ GetTask(t) # Absent
        /\ task[u].status = "failed" /\ ~Has(agents, task[u].agentId)
        /\ GetTask(u) # Absent

(***************************************************************************)
(* Sessions: the properties checked.                                       *)
(***************************************************************************)
\* C10: once isActive is false the session is terminal: isActive stays
\* false, and no later operation changes its participants, which stay empty.
C10_EndedSessionTerminal ==
    [][\A r \in DOMAIN sessionObjs :
          ~sessionObjs[r].isActive =>
              /\ ~sessionObjs'[r].isActive
              /\ sessionObjs'[r].participants = sessionObjs[r].participants
              /\ sessionObjs'[r].participants = << >>]_vars

\* The color of participant id in the map ps.
ColorOf(ps, id) == GetParticipant(ps, id)[1].color

\* C11 as stated: the Nth addParticipant call without a color (the host's
\* being number 0) stores its participant with palette color N mod 8.
C11_NthColorByCallIndex ==
    [][addLog' # addLog =>
          ColorOf(sessionObjs'[1].participants, addLog'[Len(addLog')]) =
              Palette[(Len(addLog') % 8) + 1]]_vars

\* Every id passed so far was new: none repeats, none is the host's.
NoRepeat ==
    /\ "host" \notin Range(addLog)
    /\ \A i, j \in DOMAIN addLog : addLog[i] = addLog[j] => i = j

\* C11 amended: when every call carries an id that is not in the session
\* yet, the Nth participant added (the host being number 0) is stored with
\* palette color N mod 8 of the 8-entry palette.
C11_NthColorDistinctIds ==
    (sessionObjs # << >> /\ NoRepeat) =>
        LET ps == sessionObjs[1].participants
        IN  /\ Len(Palette) = 8
            /\ Len(ps) = Len(addLog) + 1
            /\ \A n \in 0..Len(addLog) :
                  /\ ps[n + 1].id = IF n = 0 THEN "host" ELSE addLog[n]
                  /\ ps[n + 1].color = Palette[(n % 8) + 1]

\* Nine newcomers were added after the host: the palette has wrapped.
C11_Witness ==
    /\ NoRepeat
    /\ Len(addLog) >= 9
    /\ ColorOf(sessionObjs[1].participants, addLog[8]) = Palette[1]
    /\ ColorOf(sessionObjs[1].participants, addLog[9]) = Palette[2]

\* The manager has no session under id.
UnknownSession(id) == \A i \in DOMAIN sessions : sessions[i].id # id

\* C12: joinSession, leaveSession and endSession called with a session id
\* the manager does not hold change no session and not the registry;
\* joinSession raises NotFound, leaveSession and endSession return silently.
C12_UnknownSessionNoEffect ==
    [][\A id \in LookupIds :
          UnknownSession(id) =>
              /\ \A stub \in JoinStubs :
                    JoinSession(id, stub) =>
                        /\ raised' = Some(NotFound("joinSession", id))
                        /\ UNCHANGED << sessionObjs, sessions >>
                        /\ engine' = << >>
              /\ \A pid \in ParticipantIds :
                    LeaveSession(id, pid) =>
                        /\ raised' = Absent
                        /\ UNCHANGED << sessionObjs, sessions >>
                        /\ engine' = << >>
              /\ EndSession(id) =>
                    /\ raised' = Absent
                    /\ UNCHANGED << sessionObjs, sessions >>
                    /\ engine' = << >>]_vars

\* joinSession has just raised NotFound for the id of a session that was
\* ended, while the manager holds another session.
C12_Witness ==
    /\ \E id \in SessionIds :
          /\ raised = Some(NotFound("joinSession", id))
          /\ \E r \in DOMAIN sessionObjs : sessionObjs[r].id = id
    /\ sessions # << >>

\* The step is an addParticipant of an id pid to the session ref.
AddsTo(ref, pid) ==
    \/ \E p \in DirectParticipants : p.id = pid /\ SessionAddParticipant(ref, p)
    \/ \E id \in LookupIds, stub \in JoinStubs :
          stub.id = pid /\ SessionsGet(id) = ref /\ JoinSession(id, stub)

\* The step is a removeParticipant(pid) on the session ref.
RemovesFrom(ref, pid) ==
    \/ SessionRemoveParticipant(ref, pid)
    \/ \E id \in LookupIds : SessionsGet(id) = ref /\ LeaveSession(id, pid)

\* C13: removeParticipant(id) leaves getParticipant(id) not found and makes
\* exactly one removeCursor(id) call on the session's sync engine; nothing
\* else makes such a call, and a participant that is not found is found again
\* only by a later addParticipant with that id.
C13_RemoveThenAbsent ==
    [][\A ref \in DOMAIN sessionObjs, pid \in ParticipantIds :
          /\ (\/ SessionRemoveParticipant(ref, pid)
              \/ \E i \in DOMAIN sessions :
                    sessions[i].ref = ref /\ LeaveSession(sessions[i].id, pid)) =>
                /\ GetParticipant(sessionObjs'[ref].participants, pid) = Absent
                /\ engine' = << RemoveCursorCall(ref, pid) >>
          /\ (RemoveCursorCall(ref, pid) \in Range(engine')) => RemovesFrom(ref, pid)
          /\ (/\ GetParticipant(sessionObjs[ref].participants, pid) = Absent
              /\ GetParticipant(sessionObjs'[ref].participants, pid) # Absent)
                => AddsTo(ref, pid)]_vars

\* The host has just been removed from a session it was in with a second
\* participant, who is still there.
C13_Witness ==
    \E ref \in DOMAIN sessionObjs :
        /\ engine = << RemoveCursorCall(ref, "host") >>
        /\ sessionObjs[ref].isActive
        /\ Len(sessionObjs[ref].participants) = 1
        /\ sessionObjs[ref].participants[1].id = "p1"
        /\ sessionObjs[ref].participants[1].color = Palette[2]

\* C14 as stated: removeParticipant(id) for an id that is not in the
\* session's participant map raises nothing, leaves every participant map as
\* it was and has no effect on the sync engine: no removeCursor reaches it.
C14_AbsentRemoveNoOp ==
    [][\A ref \in DOMAIN sessionObjs, pid \in ParticipantIds :
          (/\ GetParticipant(sessionObjs[ref].participants, pid) = Absent
           /\ SessionRemoveParticipant(ref, pid)) =>
              /\ raised' = Absent
              /\ UNCHANGED << sessionObjs, sessions >>
              /\ engine' = << >>]_vars

\* C15: Session.end() raises nothing and leaves isActive false and the
\* participant map empty, from any state of the session; a second end()
\* right after it gives the same state again.
C15_EndIdempotent ==
    [][\A ref \in DOMAIN sessionObjs :
          SessionEnd(ref) =>
              /\ raised' = Absent
              /\ ~sessionObjs'[ref].isActive
              /\ sessionObjs'[ref].participants = << >>
              /\ End(sessionObjs'[ref]) = sessionObjs'[ref]
              /\ End(End(sessionObjs[ref])) = End(sessionObjs[ref])
              /\ \A other \in DOMAIN sessionObjs \ {ref} :
                    sessionObjs'[other] = sessionObjs[other]]_vars

\* One session is ended and empty; another was ended and then given a
\* participant again, the state a further end() starts from.
C15_Witness ==
    \E r1, r2 \in DOMAIN sessionObjs :
        /\ ~sessionObjs[r1].isActive
        /\ sessionObjs[r1].participants = << >>
        /\ ~sessionObjs[r2].isActive
        /\ sessionObjs[r2].participants # << >>
        /\ raised = Absent

\* An agent with the name is registered.
NameRegistered(name) == \E a \in Range(agents) : AgentName(a) = name

\* C16: each convenience method raises NotFound and changes no history and
\* no registry when no agent with its fixed name is registered; when one is,
\* it returns the string that agent's execute returned, and the task
\* registry and the task records are as they were.
C16_DispatchByName ==
    [][\A m \in DispatchMethods, x \in DispatchInputs :
          Dispatch(m, x) =>
              IF NameRegistered(DispatchName(m))
              THEN LET a == CHOOSE a \in Range(agents) : AgentName(a) = DispatchName(m)
                   IN  /\ raised' = Absent
                       /\ reply' = Some(Tag(a) \o x)
                       /\ history'[a] = history[a] \o Exchange(a, x)
                       /\ UNCHANGED << agents, task, tasks, calls >>
              ELSE /\ raised' = Some(NotFound(m, DispatchName(m)))
                   /\ reply' = Absent
                   /\ UNCHANGED << agents, history, task, tasks, calls >>]_vars

\* askArchitect has just raised NotFound while the other built-in agents are
\* registered and the Architect answered an earlier call.
C16_Witness ==
    /\ raised = Some(NotFound("askArchitect", "The Architect"))
    /\ history["architect"] # << >>
    /\ Len(agents) = 3

\* C17: after every step getBudgetRemaining() of every session is the amount
\* the shared ledger has left; recordAiUsage(cost) returns the ledger's
\* accepted/rejected answer, spends on the ledger what the ledger accepted
\* and leaves every session as it was.
C17_BudgetPassThrough ==
    [][/\ \A ref \in DOMAIN sessionObjs' :
             (GetBudgetRemaining(sessionObjs[ref]))' = ledger'
       /\ \A ref \in DOMAIN sessionObjs :
             ReadBudget(ref) => reply' = Some(Amount(ledger)) /\ ledger' = ledger
       /\ \A ref \in DOMAIN sessionObjs, cost \in Costs :
             RecordAiUsage(ref, cost) =>
                 /\ reply' = Some(Answer(cost <= ledger))
                 /\ ledger' = IF cost <= ledger THEN ledger - cost ELSE ledger
                 /\ UNCHANGED << sessionObjs, sessions >>]_vars

\* Two sessions exist, spends were accepted, and the last recordAiUsage was
\* rejected: the ledger holds less than each session's budget field.
C17_Witness ==
    /\ Len(sessionObjs) >= 2
    /\ reply = Some(Answer(FALSE))
    /\ ledger < OpeningBalance
    /\ ledger > 0
    /\ \A ref \in DOMAIN sessionObjs : sessionObjs[ref].budget # ledger

\* The history h is a sequence of adjacent (user, assistant) pairs, each
\* assistant message the labeled echo, by agent a, of the user message
\* before it.
PairedHistory(a, h) ==
    /\ Len(h) % 2 = 0
    /\ \A k \in 1..(Len(h) \div 2) :
          /\ h[2 * k - 1].role = "user"
          /\ h[2 * k] = [role |-> "assistant",
                         content |-> Tag(a) \o h[2 * k - 1].content]

\* C18: whatever the interleaving of submitTask and convenience calls, the
\* history of every built-in agent is a sequence of adjacent (user,
\* assistant) pairs with the labeled echo as the assistant content; a
\* history changes only by an execute (from submitTask or from a convenience
\* method), which appends exactly one such pair to one agent's history.
C18_HistoryPaired ==
    [][/\ \A a \in BuiltIn : PairedHistory(a, history'[a])
       /\ history' # history =>
             /\ \E a \in BuiltIn :
                   /\ Len(history'[a]) = Len(history[a]) + 2
                   /\ SubSeq(history'[a], 1, Len(history[a])) = history[a]
                   /\ \A b \in AgentObjs \ {a} : history'[b] = history[b]
             /\ \/ CallBuiltIn
                \/ \E m \in DispatchMethods, x \in DispatchInputs : Dispatch(m, x)]_vars

\* A submitTask call to the Architect is suspended at its await, and
\* askArchitect has run since: its pair follows the task's pair.
C18_Witness ==
    /\ \E t \in DOMAIN calls :
          /\ calls[t].agent = "architect"
          /\ calls[t].input = "hi"
          /\ calls[t].pc = "queued"
    /\ history["architect"] = Exchange("architect", "hi") \o Exchange("architect", "")
    /\ reply = Some(Response("architect", ""))

\* C19 as stated: every session createSession returned that has not been
\* ended is what getSession returns for its id, and listSessions has exactly
\* one entry for each of them.
C19_NoSessionDisplaced ==
    LET live == { ref \in DOMAIN sessionObjs : sessionObjs[ref].isActive }
    IN  /\ \A ref \in live :
              GetSession(sessionObjs[ref].id) = Some(sessionObjs[ref])
        /\ \A r1, r2 \in live : sessionObjs[r1].id = sessionObjs[r2].id => r1 = r2
        /\ Len(ListSessions) = Cardinality(live)

\* C20 as stated: in every active session the participant whose id is hostId
\* is present with isHost = true, and no other participant has isHost = true.
C20_ExactlyOneHost ==
    \A ref \in DOMAIN sessionObjs :
        sessionObjs[ref].isActive =>
            LET ps == sessionObjs[ref].participants
            IN  /\ \E i \in DOMAIN ps : ps[i].id = sessionObjs[ref].hostId /\ ps[i].isHost
                /\ \A i \in DOMAIN ps : ps[i].isHost => ps[i].id = sessionObjs[ref].hostId

=============================================================================
